---- MODULE Spec2Model ----
(***************************************************************************)
(* PhoenixGuard module signature verification library                      *)
(* (src/utils/pgmodverify.c, src/utils/pgmodverify.h).                     *)
(*                                                                         *)
(* State: the process-wide certificate cache (a singly linked list, head   *)
(* first), the OpenSSL init flag, the byte order of the host the library   *)
(* was built for, and the result of the last verification together with    *)
(* the inputs of that call.                                                *)
(*                                                                         *)
(* Spec is the library called from one thread, each call atomic.  SpecC is *)
(* the library called from several threads: the cache is then the pointer  *)
(* cache_head into a heap of cert_cache_entry_t (mem), and every thread    *)
(* steps through the statements of its call that touch the shared list.    *)
(* SpecL is the life of one process: the calls of the public API in any    *)
(* order, or the run of the test program main, together with the state of  *)
(* the OpenSSL library the build links (openssl_build, provider) and a     *)
(* record of the last call (last).                                         *)
(*                                                                         *)
(* A module file is a sequence of bytes (0..255).  Cryptography is         *)
(* symbolic: a digest is collision free (it is represented by the hash id  *)
(* followed by the bytes that were fed to it) and an RSA signature blob is *)
(* the byte naming the key pair followed by the digest it signs, so that   *)
(* applying the public key recovers the signed digest.  External faults    *)
(* the code has branches for (fopen, fread, the digest provider) are       *)
(* inputs of the call; memory allocation is assumed to succeed.            *)
(***************************************************************************)
EXTENDS Integers, Sequences, FiniteSets, TLC

VARIABLES cert_cache, openssl_initialized, host_big_endian, result, call,
          load_log, mem, cache_head, thread, openssl_build, provider, last

\* the state of the process view, of the single-threaded view (with the
\* process view, which the threads leave alone) and of the multi-threaded view
life_vars == <<openssl_build, provider, last>>
seq_vars == <<cert_cache, host_big_endian, result, call, load_log, life_vars>>
conc_vars == <<mem, cache_head, thread>>

vars == <<cert_cache, openssl_initialized, host_big_endian, result, call, load_log,
          mem, cache_head, thread, openssl_build, provider, last>>

(***************************************************************************)
(* Bounds of the model.                                                    *)
(***************************************************************************)
\* longest module content, in bytes
MaxContent == 2
\* most entries the certificate cache holds
MaxCerts == 2
\* most files present in a certificate directory
MaxDirFiles == 2
\* cert_cache_entry_t objects malloc hands out in the multi-threaded view
MaxEntries == 2

(***************************************************************************)
(* Program constants.                                                      *)
(***************************************************************************)
\* "~Module signature appended~\n" as ASCII codes
MODULE_SIG_STRING ==
    << 126, 77, 111, 100, 117, 108, 101, 32,
       115, 105, 103, 110, 97, 116, 117, 114, 101, 32,
       97, 112, 112, 101, 110, 100, 101, 100, 126, 10 >>

MODULE_SIG_STRING_LEN == Len(MODULE_SIG_STRING)

\* sizeof(struct module_signature): 5 + 3 bytes, then an aligned uint32_t
SIZEOF_MODULE_SIGNATURE == 12

\* sizeof(buffer) in pg_calculate_module_hash
HASH_BUFFER_SIZE == 8192

NULL == "NULL"

(***************************************************************************)
(* Byte helpers.                                                           *)
(***************************************************************************)
Min(a, b) == IF a < b THEN a ELSE b

\* fread of n bytes at 0-based offset off of a file that holds `bytes`
ReadAt(bytes, off, n) ==
    IF off < 0 \/ off >= Len(bytes) THEN << >>
    ELSE SubSeq(bytes, off + 1, Min(off + n, Len(bytes)))

\* a uint32_t held in four bytes, most / least significant byte first
BigEndian32(b) == ((b[1] * 256 + b[2]) * 256 + b[3]) * 256 + b[4]
LittleEndian32(b) == ((b[4] * 256 + b[3]) * 256 + b[2]) * 256 + b[1]

ToBigEndian32(n) ==
    << (n \div 16777216) % 256, (n \div 65536) % 256, (n \div 256) % 256, n % 256 >>
ToLittleEndian32(n) ==
    << n % 256, (n \div 256) % 256, (n \div 65536) % 256, (n \div 16777216) % 256 >>

\* byte b with bit number `bit` inverted
FlipBit(b, bit) ==
    LET w == IF bit = 0 THEN 1 ELSE IF bit = 1 THEN 2 ELSE IF bit = 2 THEN 4
             ELSE IF bit = 3 THEN 8 ELSE IF bit = 4 THEN 16 ELSE IF bit = 5 THEN 32
             ELSE IF bit = 6 THEN 64 ELSE 128
    IN IF (b \div w) % 2 = 1 THEN b - w ELSE b + w

(***************************************************************************)
(* Symbolic cryptography (the OpenSSL primitives the library calls).       *)
(***************************************************************************)
\* EVP_DigestInit_ex / Update / Final over `data` with digest number h
Digest(h, data) == << h >> \o data

\* what applying public key `pkey` to a signature blob recovers
RsaRecover(pkey, blob) ==
    IF Len(blob) >= 1 /\ blob[1] = pkey
    THEN [ok |-> TRUE, digest |-> Tail(blob)]
    ELSE [ok |-> FALSE, digest |-> << >>]

\* EVP_PKEY_verify(ctx, sig, siglen, tbs, tbslen) == 1
EVP_PKEY_verify(pkey, blob, hash) ==
    LET rec == RsaRecover(pkey, blob) IN rec.ok /\ rec.digest = hash

\* the signing tool: a signature by the private key of `pkey` over the content
SignBlob(pkey, h, content) == << pkey >> \o Digest(h, content)

\* X509_digest(cert, EVP_sha256()) printed as lowercase hex
Sha256Hex(der) == "sha256hex:" \o der

\* md_len of EVP_sha256()
SHA256_MD_LEN == 32

\* malloc(64) for entry->fingerprint
FINGERPRINT_BUF_SIZE == 64

(***************************************************************************)
(* The trailer: struct module_signature and pg_find_module_signature.      *)
(***************************************************************************)
\* the twelve bytes of a struct module_signature as the host reads them:
\* the uint32_t sig_len is read in the host's byte order, unconverted
module_signature(raw, big_endian) ==
    [ algo       |-> raw[1],
      hash       |-> raw[2],
      id_type    |-> raw[3],
      signer_len |-> raw[4],
      key_id_len |-> raw[5],
      pad        |-> SubSeq(raw, 6, 8),
      sig_len    |-> IF big_endian THEN BigEndian32(SubSeq(raw, 9, 12))
                     ELSE LittleEndian32(SubSeq(raw, 9, 12)) ]

\* *sig when pg_find_module_signature returns before filling it
UnreadSig ==
    [ algo |-> 0, hash |-> 0, id_type |-> 0, signer_len |-> 0, key_id_len |-> 0,
      pad |-> << 0, 0, 0 >>, sig_len |-> 0 ]

NotFound == [ret |-> -1, sig |-> UnreadSig]

\* mutant: the comparison stops one byte early
MagicMatches_OneShort(magic_buffer) ==
    SubSeq(magic_buffer, 1, MODULE_SIG_STRING_LEN - 1)
      = SubSeq(MODULE_SIG_STRING, 1, MODULE_SIG_STRING_LEN - 1)

\* memcmp(magic_buffer, MODULE_SIG_STRING, MODULE_SIG_STRING_LEN) == 0
MagicMatches(magic_buffer) == magic_buffer = MODULE_SIG_STRING

\* mutant: a declared length of zero is let through
BadSigLen_ZeroAllowed(sig_len, file_size) == sig_len > file_size \div 2

\* sig->sig_len == 0 || sig->sig_len > (file_size / 2)
BadSigLen(sig_len, file_size) == sig_len = 0 \/ sig_len > file_size \div 2

\* returns the offset of the signature data (the end of the content), or -1
pg_find_module_signature(file, fault, big_endian) ==
    LET file_size    == Len(file)
        magic_buffer == ReadAt(file, file_size - MODULE_SIG_STRING_LEN,
                               MODULE_SIG_STRING_LEN)
        sig_offset   == file_size - MODULE_SIG_STRING_LEN - SIZEOF_MODULE_SIGNATURE
        raw          == ReadAt(file, sig_offset, SIZEOF_MODULE_SIGNATURE)
        sig          == module_signature(raw, big_endian)
    IN  IF file_size < MODULE_SIG_STRING_LEN + SIZEOF_MODULE_SIGNATURE
        THEN NotFound
        ELSE IF fault = "fread_magic" \/ Len(magic_buffer) # MODULE_SIG_STRING_LEN
        THEN NotFound
        ELSE IF ~MagicMatches(magic_buffer)
        THEN NotFound
        ELSE IF fault = "fread_struct" \/ Len(raw) # SIZEOF_MODULE_SIGNATURE
        THEN NotFound
        ELSE IF BadSigLen(sig.sig_len, file_size)
        THEN NotFound
        ELSE [ret |-> sig_offset - sig.sig_len, sig |-> sig]

(***************************************************************************)
(* pg_extract_signature and pg_calculate_module_hash.  A buffer pointer is *)
(* a record: null, or the bytes it points to.                              *)
(***************************************************************************)
NullBuffer == [null |-> TRUE, bytes |-> << >>]
Buffer(b) == [null |-> FALSE, bytes |-> b]

pg_extract_signature(file, sig, sig_data_offset, fault) ==
    LET sig_data == ReadAt(file, sig_data_offset, sig.sig_len)
    IN  IF fault = "fread_sig" \/ Len(sig_data) # sig.sig_len
        THEN NullBuffer
        ELSE Buffer(sig_data)

\* the bytes fread still delivers in the hashing pass: all of the file, or,
\* after an I/O error or a truncation at env.at, only the bytes before it
Readable(file, env) ==
    IF env.fault = "short_read" THEN SubSeq(file, 1, Min(env.at, Len(file)))
    ELSE file

\* the while loop of pg_calculate_module_hash: the bytes fed to the digest
RECURSIVE HashLoop(_, _, _, _)
HashLoop(readable, pos, bytes_remaining, fed) ==
    IF bytes_remaining > 0
    THEN LET to_read    == IF bytes_remaining > HASH_BUFFER_SIZE
                           THEN HASH_BUFFER_SIZE ELSE bytes_remaining
             buffer     == ReadAt(readable, pos, to_read)
             bytes_read == Len(buffer)
         IN  IF bytes_read = 0 THEN fed
             ELSE HashLoop(readable, pos + bytes_read,
                           bytes_remaining - bytes_read, fed \o buffer)
    ELSE fed

pg_calculate_module_hash(file, content_end, hash, env) ==
    IF env.fault = "digest"
    THEN NullBuffer
    ELSE Buffer(Digest(hash, HashLoop(Readable(file, env), 0, content_end, << >>)))

(***************************************************************************)
(* pg_verify_signature_with_cert and pg_verify_module_signature.           *)
(***************************************************************************)
pg_verify_signature_with_cert(hash, signature, cert) ==
    LET pkey == cert.pubkey
    IN  IF pkey = 0 THEN FALSE
        ELSE EVP_PKEY_verify(pkey, signature, hash)

\* the for loop over cert_cache: the position of the first entry, from the
\* head of the list, whose certificate verifies; 0 when none does
RECURSIVE FirstVerifying(_, _, _, _)
FirstVerifying(cache, i, hash, signature) ==
    IF i > Len(cache) THEN 0
    ELSE IF pg_verify_signature_with_cert(hash, signature, cache[i].cert) THEN i
    ELSE FirstVerifying(cache, i + 1, hash, signature)

HashName(h) ==
    IF h = 0 THEN "sha1" ELSE IF h = 1 THEN "sha224" ELSE IF h = 2 THEN "sha256"
    ELSE IF h = 3 THEN "sha384" ELSE "sha512"

\* calloc(1, sizeof(pg_verify_result_t))
CallocResult ==
    [ valid            |-> FALSE,
      has_signature    |-> FALSE,
      signer           |-> NULL,
      algorithm        |-> NULL,
      hash_algorithm   |-> NULL,
      error_message    |-> NULL,
      signature_offset |-> 0,
      signature_size   |-> 0 ]

\* the result on each path of pg_verify_module_signature
\* mutant: the failed open is reported like a file without a trailer
OpenFailed_AsNoSignature ==
    [CallocResult EXCEPT !.error_message = "No signature found in module"]

OpenFailed ==
    [CallocResult EXCEPT !.error_message = "Failed to open module file"]

NoSignature ==
    [CallocResult EXCEPT !.has_signature = FALSE,
                         !.error_message = "No signature found in module"]

WithSignature(sig_data_offset, sig) ==
    [CallocResult EXCEPT !.has_signature = TRUE,
                         !.signature_offset = sig_data_offset,
                         !.signature_size = sig.sig_len]

ExtractFailed(r) ==
    [r EXCEPT !.error_message = "Failed to extract signature data"]

UnknownHash(r) ==
    [r EXCEPT !.error_message = "Unknown hash algorithm"]

WithHash(r, h) ==
    [r EXCEPT !.hash_algorithm = HashName(h)]

HashFailed(r) ==
    [r EXCEPT !.error_message = "Failed to calculate module hash"]

\* mutant: the signer is not copied into the result
Verified_NoSigner(r, cert_entry) ==
    [r EXCEPT !.valid = TRUE, !.algorithm = "rsa"]

Verified(r, cert_entry) ==
    [r EXCEPT !.valid = TRUE,
              !.signer = cert_entry.fingerprint,
              !.algorithm = "rsa"]

\* mutant: the failed loop leaves no message
NotVerified_Silent(r) == r

NotVerified(r) ==
    [r EXCEPT !.error_message =
                "Signature verification failed against all certificates"]

pg_verify_module_signature(file, cache, env, big_endian) ==
    LET found    == pg_find_module_signature(file, env.fault, big_endian)
        sig      == found.sig
        r1       == WithSignature(found.ret, sig)
        sig_data == pg_extract_signature(file, sig, found.ret, env.fault)
        r2       == WithHash(r1, sig.hash)
        module_hash == pg_calculate_module_hash(file, found.ret, sig.hash, env)
        hit      == FirstVerifying(cache, 1, module_hash.bytes, sig_data.bytes)
    IN  IF env.fault = "fopen" THEN OpenFailed
        ELSE IF found.ret < 0 THEN NoSignature
        ELSE IF sig_data.null THEN ExtractFailed(r1)
        ELSE IF sig.hash \notin 0..4 THEN UnknownHash(r1)
        ELSE IF module_hash.null THEN HashFailed(r2)
        ELSE IF hit # 0 THEN Verified(r2, cache[hit])
        ELSE NotVerified(r2)

(***************************************************************************)
(* The resources of one pg_verify_module_signature call: the FILE handle,  *)
(* the signature buffer of pg_extract_signature and the digest buffer of   *)
(* pg_calculate_module_hash, each with the number of times it was acquired *)
(* and released when the call returns.                                     *)
(***************************************************************************)
\* the exit the call takes
VerifyPath(file, env, big_endian) ==
    LET found    == pg_find_module_signature(file, env.fault, big_endian)
        sig_data == pg_extract_signature(file, found.sig, found.ret, env.fault)
        module_hash ==
            pg_calculate_module_hash(file, found.ret, found.sig.hash, env)
    IN  IF env.fault = "fopen" THEN "open_failed"
        ELSE IF found.ret < 0 THEN "no_signature"
        ELSE IF sig_data.null THEN "extract_failed"
        ELSE IF found.sig.hash \notin 0..4 THEN "unknown_hash"
        ELSE IF module_hash.null THEN "hash_failed"
        ELSE "certificate_loop"

\* mutant: the no-signature exit returns without passing the cleanup label
ExitsThroughCleanup_EarlyReturn(path) ==
    path \notin {"open_failed", "no_signature"}

\* the exit passes the cleanup: label (every exit but the failed fopen)
ExitsThroughCleanup(path) == path # "open_failed"

Count(b) == IF b THEN 1 ELSE 0

VerifyResources(file, env, big_endian) ==
    LET path == VerifyPath(file, env, big_endian)
        \* module_file = fopen(...): non-null on every path but open_failed
        file_open  == path # "open_failed"
        \* sig_data = malloc(sig->sig_len) inside pg_extract_signature; on a
        \* failed fread it is freed there and NULL is returned
        sig_malloc == path \in {"extract_failed", "unknown_hash", "hash_failed",
                                "certificate_loop"}
        sig_freed_inside == path = "extract_failed"
        sig_held   == sig_malloc /\ ~sig_freed_inside
        \* hash = malloc(EVP_MD_size(...)) inside pg_calculate_module_hash,
        \* after EVP_DigestInit_ex; the failure modelled is that of
        \* EVP_DigestInit_ex, which returns before the malloc
        hash_malloc == path = "certificate_loop"
        hash_held   == hash_malloc
        at_label    == ExitsThroughCleanup(path)
    IN  [ module_file |-> [acquired |-> Count(file_open),
                           released |-> Count(at_label /\ file_open)],
          sig_data    |-> [acquired |-> Count(sig_malloc),
                           released |-> Count(sig_freed_inside)
                                        + Count(at_label /\ sig_held)],
          module_hash |-> [acquired |-> Count(hash_malloc),
                           released |-> Count(at_label /\ hash_held)] ]

(***************************************************************************)
(* The certificate cache: pg_load_certificate, pg_load_certificates_from_dir*)
(* and pg_cleanup.                                                         *)
(***************************************************************************)
\* the certificates of the model: CertA and CertB carry the same public key
CertA == [der |-> "derA", pubkey |-> 17]
CertB == [der |-> "derB", pubkey |-> 17]
CertC == [der |-> "derC", pubkey |-> 34]
NoCert == [der |-> "", pubkey |-> 0]
Certs == {CertA, CertB, CertC}

\* the names pg_load_certificates_from_dir tries, in this order
cert_files ==
    << "user_secureboot.crt", "user_secureboot.pem", "user_secureboot.der",
       "phoenixguard.crt", "phoenixguard.pem" >>

\* what a path of a certificate directory holds
Missing    == [kind |-> "missing", cert |-> NoCert]
Unreadable == [kind |-> "unreadable", cert |-> NoCert]
Garbage    == [kind |-> "garbage", cert |-> NoCert]
Pem(c)     == [kind |-> "pem", cert |-> c]
Der(c)     == [kind |-> "der", cert |-> c]

\* fopen(cert_path, "r") / access(cert_path, R_OK) succeed
CanOpen(f) == f.kind \notin {"missing", "unreadable"}

\* PEM_read_X509, and d2i_X509_fp tried only when that returned NULL
ParseCertificate(f) ==
    IF f.kind = "pem" THEN f.cert
    ELSE IF f.kind = "der" THEN f.cert
    ELSE NoCert

\* entry->fingerprint after the X509_digest branch
Fingerprint(cert, digest_ok) ==
    IF digest_ok THEN Sha256Hex(cert.der) ELSE "unknown"

\* the indices of entry->fingerprint that are written: sprintf "%02x" at
\* i * 2 writes two digits and a NUL, then fingerprint[md_len * 2] = 0; or
\* strcpy of "unknown" and its NUL
FingerprintWrites(digest_ok) ==
    IF digest_ok
    THEN UNION { {i * 2, i * 2 + 1, i * 2 + 2} : i \in 0..(SHA256_MD_LEN - 1) }
         \cup {SHA256_MD_LEN * 2}
    ELSE 0..7

\* pg_init_openssl: sets the flag (when it is not set yet) and returns 1
pg_init_openssl(initialized) == [ret |-> 1, initialized |-> TRUE]

\* mutant: a file that does not parse is counted as loaded
pg_load_certificate_CountsFailures(cache, initialized, f, digest_ok) ==
    LET cert  == ParseCertificate(f)
        entry == [cert |-> cert, fingerprint |-> Fingerprint(cert, digest_ok)]
    IN  IF ~CanOpen(f) THEN [ret |-> 0, cache |-> cache, initialized |-> TRUE]
        ELSE IF cert = NoCert THEN [ret |-> 1, cache |-> cache, initialized |-> TRUE]
        ELSE [ret |-> 1, cache |-> << entry >> \o cache, initialized |-> TRUE]

\* mutant: the entry is put into the list before the parse is looked at
pg_load_certificate_InsertsUnparsed(cache, initialized, f, digest_ok) ==
    LET cert  == ParseCertificate(f)
        entry == [cert |-> cert, fingerprint |-> Fingerprint(cert, digest_ok)]
    IN  IF ~CanOpen(f) THEN [ret |-> 0, cache |-> cache, initialized |-> TRUE]
        ELSE [ret |-> IF cert = NoCert THEN 0 ELSE 1,
              cache |-> << entry >> \o cache, initialized |-> TRUE]

\* mutant: the new entry takes the place of the head of the list
pg_load_certificate_ReplacesHead(cache, initialized, f, digest_ok) ==
    LET cert  == ParseCertificate(f)
        entry == [cert |-> cert, fingerprint |-> Fingerprint(cert, digest_ok)]
    IN  IF ~CanOpen(f) \/ cert = NoCert
        THEN [ret |-> 0, cache |-> cache, initialized |-> TRUE]
        ELSE [ret |-> 1,
              cache |-> << entry >> \o (IF cache = << >> THEN << >> ELSE Tail(cache)),
              initialized |-> TRUE]

\* returns 1 and the cache with the new entry at its head, or 0
pg_load_certificate(cache, initialized, f, digest_ok) ==
    LET init  == pg_init_openssl(initialized)
        cert  == ParseCertificate(f)
        entry == [cert |-> cert, fingerprint |-> Fingerprint(cert, digest_ok)]
        fail  == [ret |-> 0, cache |-> cache, initialized |-> init.initialized]
    IN  IF init.ret = 0 THEN [ret |-> 0, cache |-> cache, initialized |-> initialized]
        ELSE IF ~CanOpen(f) THEN fail
        ELSE IF cert = NoCert THEN fail
        ELSE [ret |-> 1, cache |-> << entry >> \o cache,
              initialized |-> init.initialized]

\* the for loop of pg_load_certificates_from_dir from cert_files[i] on
RECURSIVE LoadFrom(_, _, _, _, _, _)
LoadFrom(cache, initialized, dir, digest_ok, i, loaded) ==
    IF i > Len(cert_files)
    THEN [ret |-> loaded, cache |-> cache, initialized |-> initialized]
    ELSE IF CanOpen(dir[cert_files[i]])
    THEN LET one == pg_load_certificate(cache, initialized, dir[cert_files[i]],
                                        digest_ok)
         IN  LoadFrom(one.cache, one.initialized, dir, digest_ok, i + 1,
                      loaded + one.ret)
    ELSE LoadFrom(cache, initialized, dir, digest_ok, i + 1, loaded)

pg_load_certificates_from_dir(cache, initialized, dir, digest_ok) ==
    LoadFrom(cache, initialized, dir, digest_ok, 1, 0)

\* the entries one pg_load_certificates_from_dir call inserts, in the order of
\* its pg_load_certificate calls (history, for load_log)
InsertedInOrder(dir, digest_ok) ==
    LET tried(i) == dir[cert_files[i]]
        idx == SelectSeq([i \in 1..Len(cert_files) |-> i],
                         LAMBDA i : CanOpen(tried(i))
                                    /\ ParseCertificate(tried(i)) # NoCert)
    IN  [k \in 1..Len(idx) |->
           [cert |-> ParseCertificate(tried(idx[k])),
            fingerprint |-> Fingerprint(ParseCertificate(tried(idx[k])), digest_ok)]]

(***************************************************************************)
(* Inputs: certificate directories, module files, faults.                  *)
(***************************************************************************)
Range(f) == {f[x] : x \in DOMAIN f}

PresentStates ==
    {Unreadable, Garbage, Der(CertA)} \cup {Pem(c) : c \in Certs}

CertDirs ==
    { d \in [Range(cert_files) -> PresentStates \cup {Missing}] :
        Cardinality({n \in Range(cert_files) : d[n] # Missing}) <= MaxDirFiles }

\* a module file in its parts; the file is their concatenation
Module(content, sig, signer, keyid, hdr, magic) ==
    [content |-> content, sig |-> sig, signer |-> signer, keyid |-> keyid,
     hdr |-> hdr, magic |-> magic]

FileBytes(m) == m.content \o m.sig \o m.signer \o m.keyid \o m.hdr \o m.magic

\* the trailer header a signing tool writes; enc is "be" or "le"
Header(algo, hash, signer_len, key_id_len, pad0, sig_len, enc) ==
    << algo, hash, 1, signer_len, key_id_len, pad0, 0, 0 >>
    \o (IF enc = "be" THEN ToBigEndian32(sig_len) ELSE ToLittleEndian32(sig_len))

Encodings == {"be", "le"}

Contents == UNION { [1..n -> {171}] : n \in 0..MaxContent }

Prefixes(c) == { SubSeq(c, 1, k) : k \in 0..Len(c) }

\* signer name and key id that follow the signature
IdPairs == { << << >>, << >> >>, << << 83 >>, << >> >>, << << >>, << 75 >> >> }

\* content, a signature over the content or over a prefix of it
SignedModules ==
    UNION { UNION { { Module(c, SignBlob(k, 2, p), ids[1], ids[2],
                             Header(0, 2, Len(ids[1]), Len(ids[2]), 0,
                                    Len(SignBlob(k, 2, p)), enc),
                             MODULE_SIG_STRING)
                      : k \in {17, 34}, ids \in IdPairs, enc \in Encodings }
                    : p \in Prefixes(c) } : c \in Contents }

\* content changed in one byte after signing, or a blob no key produced
TamperedModules ==
    UNION { { Module([c EXCEPT ![i] = FlipBit(c[i], 0)], SignBlob(17, 2, c),
                     << >>, << >>,
                     Header(0, 2, 0, 0, 0, Len(SignBlob(17, 2, c)), enc),
                     MODULE_SIG_STRING)
              : i \in 1..Len(c), enc \in Encodings } : c \in Contents }
    \cup { Module(c, << 238, 238 >>, << >>, << >>,
                  Header(0, 2, 0, 0, 0, 2, enc), MODULE_SIG_STRING)
           : c \in Contents, enc \in Encodings }

\* one header field off the usual: hash id, algo, padding, declared sig_len
HeaderModules ==
    { Module(<< 171 >>, SignBlob(17, h, << 171 >>), << >>, << >>,
             Header(0, h, 0, 0, 0, 3, enc), MODULE_SIG_STRING)
      : h \in {0, 1, 3, 4, 5}, enc \in Encodings }
    \cup { Module(<< 171 >>, SignBlob(17, 2, << 171 >>), << >>, << >>,
                  Header(v[1], 2, 0, 0, v[2], v[3], enc), MODULE_SIG_STRING)
           : v \in { << 1, 0, 3 >>, << 0, 1, 3 >>, << 0, 0, 0 >>,
                     << 0, 0, 5 >>, << 0, 0, 44 >> },
             enc \in Encodings }

\* one bit of the magic string inverted
MagicModules ==
    { Module(<< 171 >>, SignBlob(17, 2, << 171 >>), << >>, << >>,
             Header(0, 2, 0, 0, 0, 3, enc),
             [MODULE_SIG_STRING EXCEPT ![pb[1]] = FlipBit(@, pb[2])])
      : pb \in {1, 14, 28} \X {0, 7}, enc \in Encodings }

\* files without a trailer, or too short to hold one
PlainModules ==
    { Module(c, << >>, << >>, << >>, << >>, << >>)
      : c \in { << >>, << 127, 69, 76, 70 >>,
                << 127, 69, 76, 70 >> \o [i \in 1..40 |-> 0] } }
    \cup { Module(<< >>, << >>, << >>, << >>, << >>, MODULE_SIG_STRING),
           Module(<< >>, << >>, << >>, << >>,
                  Tail(Header(0, 2, 0, 0, 0, 1, "be")), MODULE_SIG_STRING) }

Modules ==
    SignedModules \cup TamperedModules \cup HeaderModules \cup MagicModules
    \cup PlainModules

\* the fault of one call: none, or one of the failures the code tests for
Envs ==
    { [fault |-> f, at |-> 0]
      : f \in {"none", "fopen", "fread_magic", "fread_struct", "fread_sig", "digest"} }
    \cup { [fault |-> "short_read", at |-> k] : k \in 0..MaxContent }

(***************************************************************************)
(* The state machine: the calls of the public API.  The client keeps one   *)
(* result at a time and frees it before its next call.                     *)
(***************************************************************************)
NoResult == [none |-> TRUE]
NoCall == [none |-> TRUE]

\* the record of the last call when no call has been made
NoLast ==
    [ op |-> "none", ret |-> 0, before |-> << >>, dir |-> << >>, stderr |-> {},
      at_use |-> "unused", verified |-> FALSE, valid |-> FALSE,
      after_cleanup |-> FALSE ]

\* the heap of cert_cache_entry_t objects: addresses, the null pointer, and
\* the markers of a field malloc has not initialised
Addrs == 1..MaxEntries
NullPtr == 0
UninitPtr == -1
UninitString == "uninitialised"

\* a cert_cache_entry_t that malloc has not handed out yet
Unallocated ==
    [state |-> "unallocated", cert |-> NoCert, fingerprint |-> UninitString,
     next |-> UninitPtr]

Threads == {1, 2}

\* a thread outside the library
IdleThread ==
    [ op |-> "idle", pc |-> "idle",
      cert |-> NoCert, digest_ok |-> TRUE, entry |-> NullPtr, ret |-> 0,
      key |-> 0, cert_entry |-> NullPtr, valid |-> FALSE, signer |-> NULL,
      error_message |-> NULL,
      read_uninit |-> FALSE, read_freed |-> FALSE, wiped |-> FALSE ]

Init ==
    /\ cert_cache = << >>
    /\ openssl_initialized = FALSE
    /\ host_big_endian \in BOOLEAN
    /\ result = NoResult
    /\ call = NoCall
    /\ load_log = << >>
    /\ mem = [a \in Addrs |-> Unallocated]
    /\ cache_head = NullPtr
    /\ thread = [t \in Threads |-> IdleThread]
    /\ openssl_build = "3_0_or_later"
    /\ provider = "uninitialised"
    /\ last = NoLast

\* pg_load_certificates_from_dir(cert_dir)
Load ==
    /\ result = NoResult
    /\ \E dir \in CertDirs, digest_ok \in BOOLEAN :
         LET r == pg_load_certificates_from_dir(cert_cache, openssl_initialized,
                                                dir, digest_ok)
         IN  /\ Len(r.cache) <= MaxCerts
             /\ cert_cache' = r.cache
             /\ openssl_initialized' = r.initialized
             /\ load_log' = load_log \o InsertedInOrder(dir, digest_ok)
    /\ UNCHANGED <<host_big_endian, result, call>>
    /\ UNCHANGED conc_vars
    /\ UNCHANGED life_vars

\* pg_verify_module_signature(module_path)
Verify ==
    /\ result = NoResult
    /\ \E m \in Modules, env \in Envs :
         /\ call' = [mod |-> m, env |-> env]
         /\ result' = pg_verify_module_signature(FileBytes(m), cert_cache, env,
                                                 host_big_endian)
    /\ UNCHANGED <<cert_cache, openssl_initialized, host_big_endian, load_log>>
    /\ UNCHANGED conc_vars
    /\ UNCHANGED life_vars

\* pg_free_verify_result(result)
Free ==
    /\ result # NoResult
    /\ result' = NoResult
    /\ call' = NoCall
    /\ UNCHANGED <<cert_cache, openssl_initialized, host_big_endian, load_log>>
    /\ UNCHANGED conc_vars
    /\ UNCHANGED life_vars

\* pg_cleanup()
Cleanup ==
    /\ result = NoResult
    /\ cert_cache' = << >>
    /\ load_log' = << >>
    /\ UNCHANGED <<openssl_initialized, host_big_endian, result, call>>
    /\ UNCHANGED conc_vars
    /\ UNCHANGED life_vars

Next == Load \/ Verify \/ Free \/ Cleanup

Spec == Init /\ [][Next]_vars

(***************************************************************************)
(* The library called from several threads.  The code takes no lock, so    *)
(* the statements of concurrent calls interleave; a step below is one      *)
(* statement (or a run of statements that touch no shared object).  A read *)
(* through a pointer to a freed entry either faults (the process dies) or  *)
(* delivers what the memory held when it was freed; the bytes of an        *)
(* unwritten fingerprint buffer are whatever malloc left there.  Freed     *)
(* addresses are not handed out again.                                     *)
(***************************************************************************)
\* some thread has faulted: the process is gone
Crashed == \E t \in Threads : thread[t].pc = "aborted"

At(t, pc) == ~Crashed /\ thread[t].pc = pc

\* what a read through pointer e can do
DerefOutcomes(e) == IF mem[e].state = "freed" THEN {"stale", "fault"} ELSE {"ok"}

\* the thread after a read through a freed pointer that faulted
Faulted(th) == [th EXCEPT !.pc = "aborted", !.read_freed = TRUE]

\* the certificate files a concurrent load is given
ConcFiles == {Garbage, Pem(CertA), Pem(CertC)}

\* the digest and the signature bytes a concurrent verify has computed from
\* its module, which was signed with key k
ConcHash == Digest(2, << 171 >>)
ConcSignature(k) == SignBlob(k, 2, << 171 >>)

\* what strdup copies out of a fingerprint buffer nobody has written
GarbageStrings == {"", "garbage"}

\* pg_load_certificate up to the parse of the certificate
LoadBegin(t) ==
    /\ At(t, "idle")
    /\ \E a \in Addrs : mem[a].state = "unallocated"
    /\ \E f \in ConcFiles, digest_ok \in BOOLEAN :
         LET init == pg_init_openssl(openssl_initialized)
             cert == ParseCertificate(f)
         IN  /\ openssl_initialized' = init.initialized
             /\ thread' = [thread EXCEPT ![t] =
                  IF cert = NoCert
                  THEN [IdleThread EXCEPT !.op = "load", !.pc = "returned", !.ret = 0]
                  ELSE [IdleThread EXCEPT !.op = "load", !.pc = "load_malloc",
                                          !.cert = cert, !.digest_ok = digest_ok]]
    /\ UNCHANGED <<seq_vars, mem, cache_head>>

\* entry = malloc(...); entry->cert = cert; entry->fingerprint = malloc(64)
LoadMalloc(t) ==
    /\ At(t, "load_malloc")
    /\ \E a \in Addrs :
         /\ mem[a].state = "unallocated"
         /\ \A b \in Addrs : mem[b].state = "unallocated" => a <= b
         /\ mem' = [mem EXCEPT ![a] = [state |-> "live", cert |-> thread[t].cert,
                                       fingerprint |-> UninitString,
                                       next |-> UninitPtr]]
         /\ thread' = [thread EXCEPT ![t].entry = a, ![t].pc = "load_link"]
    /\ UNCHANGED <<seq_vars, openssl_initialized, cache_head>>

\* entry->next = cert_cache
LoadLink(t) ==
    /\ At(t, "load_link")
    /\ mem' = [mem EXCEPT ![thread[t].entry].next = cache_head]
    /\ thread' = [thread EXCEPT ![t].pc = "load_publish"]
    /\ UNCHANGED <<seq_vars, openssl_initialized, cache_head>>

\* cert_cache = entry
LoadPublish(t) ==
    /\ At(t, "load_publish")
    /\ cache_head' = thread[t].entry
    /\ thread' = [thread EXCEPT ![t].pc = "load_fingerprint"]
    /\ UNCHANGED <<seq_vars, openssl_initialized, mem>>

\* X509_digest and the sprintf loop (or strcpy "unknown"); return 1
LoadFingerprint(t) ==
    /\ At(t, "load_fingerprint")
    /\ mem' = [mem EXCEPT ![thread[t].entry].fingerprint =
                 Fingerprint(thread[t].cert, thread[t].digest_ok)]
    /\ thread' = [thread EXCEPT ![t].pc = "returned", ![t].ret = 1]
    /\ UNCHANGED <<seq_vars, openssl_initialized, cache_head>>

\* pg_verify_module_signature up to the certificate loop: the trailer was
\* found, the signature extracted and the module hashed
VerifyBegin(t) ==
    /\ At(t, "idle")
    /\ \E k \in {17, 34} :
         thread' = [thread EXCEPT ![t] =
                      [IdleThread EXCEPT !.op = "verify", !.pc = "verify_first",
                                         !.key = k]]
    /\ UNCHANGED <<seq_vars, openssl_initialized, mem, cache_head>>

\* for (cert_entry = cert_cache; ...
VerifyFirst(t) ==
    /\ At(t, "verify_first")
    /\ thread' = [thread EXCEPT ![t].cert_entry = cache_head, ![t].pc = "verify_test"]
    /\ UNCHANGED <<seq_vars, openssl_initialized, mem, cache_head>>

\* ... cert_entry; ...) if (pg_verify_signature_with_cert(..., cert_entry->cert))
\* { result->valid = 1; and, when the loop has ended, the !verified message
VerifyTest(t) ==
    /\ At(t, "verify_test")
    /\ LET th == thread[t]
           e  == th.cert_entry
       IN  IF e = NullPtr
           THEN thread' = [thread EXCEPT ![t] =
                  [th EXCEPT !.pc = "returned",
                             !.error_message =
                               "Signature verification failed against all certificates"]]
           ELSE \E outcome \in DerefOutcomes(e) :
                  thread' = [thread EXCEPT ![t] =
                    IF outcome = "fault" THEN Faulted(th)
                    ELSE IF pg_verify_signature_with_cert(
                              ConcHash, ConcSignature(th.key), mem[e].cert)
                    THEN [th EXCEPT !.pc = "verify_signer", !.valid = TRUE,
                                    !.read_freed = @ \/ outcome = "stale"]
                    ELSE [th EXCEPT !.pc = "verify_next",
                                    !.read_freed = @ \/ outcome = "stale"]]
    /\ UNCHANGED <<seq_vars, openssl_initialized, mem, cache_head>>

\* result->signer = strdup(cert_entry->fingerprint); ...; break; return
VerifySigner(t) ==
    /\ At(t, "verify_signer")
    /\ LET th == thread[t]
           e  == th.cert_entry
           fp == mem[e].fingerprint
       IN  \E outcome \in DerefOutcomes(e),
              copied \in (IF fp = UninitString THEN GarbageStrings ELSE {fp}) :
             thread' = [thread EXCEPT ![t] =
               IF outcome = "fault" THEN Faulted(th)
               ELSE [th EXCEPT !.pc = "returned", !.signer = copied,
                               !.read_uninit = @ \/ fp = UninitString,
                               !.read_freed = @ \/ outcome = "stale"]]
    /\ UNCHANGED <<seq_vars, openssl_initialized, mem, cache_head>>

\* ...; cert_entry = cert_entry->next)
VerifyNext(t) ==
    /\ At(t, "verify_next")
    /\ LET th == thread[t]
           e  == th.cert_entry
       IN  \E outcome \in DerefOutcomes(e) :
             thread' = [thread EXCEPT ![t] =
               IF outcome = "fault" THEN Faulted(th)
               ELSE [th EXCEPT !.pc = "verify_test", !.cert_entry = mem[e].next,
                               !.read_freed = @ \/ outcome = "stale"]]
    /\ UNCHANGED <<seq_vars, openssl_initialized, mem, cache_head>>

\* the threads with th_fn, where the loads of the other threads are marked:
\* a cleanup has been at the store since they began (history)
Wiped(th_fn, t) ==
    [u \in Threads |-> IF u # t /\ th_fn[u].op = "load"
                       THEN [th_fn[u] EXCEPT !.wiped = TRUE]
                       ELSE th_fn[u]]

\* pg_cleanup: for (entry = cert_cache; ...
CleanupBegin(t) ==
    /\ At(t, "idle")
    /\ thread' = Wiped([thread EXCEPT ![t] =
                          [IdleThread EXCEPT !.op = "cleanup", !.pc = "cleanup_loop",
                                             !.entry = cache_head]], t)
    /\ UNCHANGED <<seq_vars, openssl_initialized, mem, cache_head>>

\* ... entry; entry = next) { next = entry->next; X509_free(entry->cert);
\* free(entry->fingerprint); free(entry); }
CleanupFree(t) ==
    /\ At(t, "cleanup_loop")
    /\ thread[t].entry # NullPtr
    /\ LET th == thread[t]
           e  == th.entry
       IN  \E outcome \in DerefOutcomes(e) :
             /\ thread' = Wiped([thread EXCEPT ![t] =
                  IF outcome = "fault" THEN Faulted(th)
                  ELSE [th EXCEPT !.entry = mem[e].next,
                                  !.read_freed = @ \/ outcome = "stale"]], t)
             /\ mem' = IF outcome = "fault" THEN mem
                       ELSE [mem EXCEPT ![e].state = "freed"]
    /\ UNCHANGED <<seq_vars, openssl_initialized, cache_head>>

\* cert_cache = NULL; (nothing to undo for OpenSSL 3) return
CleanupReset(t) ==
    /\ At(t, "cleanup_loop")
    /\ thread[t].entry = NullPtr
    /\ cache_head' = NullPtr
    /\ thread' = Wiped([thread EXCEPT ![t].pc = "returned"], t)
    /\ UNCHANGED <<seq_vars, openssl_initialized, mem>>

\* the caller takes the return value and is outside the library again
Return(t) ==
    /\ At(t, "returned")
    /\ thread' = [thread EXCEPT ![t] = IdleThread]
    /\ UNCHANGED <<seq_vars, openssl_initialized, mem, cache_head>>

NextC ==
    \E t \in Threads :
       \/ LoadBegin(t)
       \/ LoadMalloc(t)
       \/ LoadLink(t)
       \/ LoadPublish(t)
       \/ LoadFingerprint(t)
       \/ VerifyBegin(t)
       \/ VerifyFirst(t)
       \/ VerifyTest(t)
       \/ VerifySigner(t)
       \/ VerifyNext(t)
       \/ CleanupBegin(t)
       \/ CleanupFree(t)
       \/ CleanupReset(t)
       \/ Return(t)

SpecC == Init /\ [][NextC]_vars

(***************************************************************************)
(* The life of one process.  The OpenSSL library is in one of three states;*)
(* what pg_init_openssl and pg_cleanup do to it depends on the version the *)
(* library was built against (the #if branches).  From 1.1.0 on the        *)
(* library initialises itself when a primitive is first used.              *)
(***************************************************************************)
OpenSSLBuilds == {"before_1_1_0", "1_1_0_to_3_0", "3_0_or_later"}

\* the body of pg_init_openssl below the early return
InitLibrary(build, prov) ==
    IF build = "3_0_or_later" THEN prov ELSE "initialised"

\* the library state in which a digest or verify primitive runs
ProviderAtUse(build, prov) ==
    IF build = "before_1_1_0" THEN prov ELSE "initialised"

\* the #if block of pg_cleanup
CleanupLibrary(build, initialized, prov) ==
    IF initialized /\ build = "before_1_1_0" THEN "torn_down" ELSE prov

\* the names a directory of the process view holds: the five the library
\* tries and one it does not know
OtherName == "backup.crt"
DirNames == Range(cert_files) \cup {OtherName}

EmptyDir == [n \in DirNames |-> Missing]

LifeDirs ==
    { EmptyDir,
      [EmptyDir EXCEPT !["user_secureboot.pem"] = Pem(CertA)],
      [EmptyDir EXCEPT !["user_secureboot.crt"] = Pem(CertA),
                       !["phoenixguard.pem"] = Pem(CertC)],
      [EmptyDir EXCEPT !["user_secureboot.der"] = Der(CertA),
                       !["user_secureboot.crt"] = Unreadable],
      [EmptyDir EXCEPT !["phoenixguard.crt"] = Garbage,
                       !["user_secureboot.crt"] = Unreadable],
      [EmptyDir EXCEPT ![OtherName] = Pem(CertC)],
      [EmptyDir EXCEPT ![OtherName] = Pem(CertC),
                       !["user_secureboot.crt"] = Unreadable,
                       !["user_secureboot.pem"] = Pem(CertA),
                       !["phoenixguard.crt"] = Garbage] }

\* the modules of the process view: signed with A's or C's key (sig_len in
\* either byte order), a plain ELF file, an unknown hash id
LifeModules ==
    { Module(<< 171 >>, SignBlob(k, 2, << 171 >>), << >>, << >>,
             Header(0, 2, 0, 0, 0, 3, enc), MODULE_SIG_STRING)
      : k \in {17, 34}, enc \in Encodings }
    \cup { Module(<< 127, 69, 76, 70 >>, << >>, << >>, << >>, << >>, << >>) }
    \cup { Module(<< 171 >>, SignBlob(17, 5, << 171 >>), << >>, << >>,
                  Header(0, 5, 0, 0, 0, 3, enc), MODULE_SIG_STRING)
           : enc \in Encodings }

LifeEnvs ==
    { [fault |-> f, at |-> 0] : f \in {"none", "fopen", "digest"} }

\* what pg_load_certificate writes to stderr for the files of dir: the
\* recognised names that pass access() and fail to parse
LoadStderr(dir) ==
    { [text |-> "Failed to parse certificate", path |-> cert_files[i]]
      : i \in { j \in 1..Len(cert_files) :
                  CanOpen(dir[cert_files[j]])
                  /\ ParseCertificate(dir[cert_files[j]]) = NoCert } }

\* one pg_load_certificates_from_dir call with the library state
LoadStep(cache, initialized, build, prov, dir, digest_ok) ==
    LET r == pg_load_certificates_from_dir(cache, initialized, dir, digest_ok)
        \* pg_init_openssl ran its body: the flag went from 0 to 1
        prov1 == IF r.initialized /\ ~initialized THEN InitLibrary(build, prov)
                 ELSE prov
        \* X509_digest runs for every certificate that parsed
        uses == InsertedInOrder(dir, digest_ok) # << >>
    IN  [ ret |-> r.ret, cache |-> r.cache, initialized |-> r.initialized,
          at_use |-> IF uses THEN ProviderAtUse(build, prov1) ELSE "unused",
          provider |-> IF uses THEN ProviderAtUse(build, prov1) ELSE prov1 ]

\* one pg_verify_module_signature call with the library state: the digest
\* primitives run when the call reaches pg_calculate_module_hash
VerifyStep(file, cache, env, big_endian, build, prov) ==
    LET uses == VerifyPath(file, env, big_endian) \in {"hash_failed", "certificate_loop"}
    IN  [ result |-> pg_verify_module_signature(file, cache, env, big_endian),
          at_use |-> IF uses THEN ProviderAtUse(build, prov) ELSE "unused",
          provider |-> IF uses THEN ProviderAtUse(build, prov) ELSE prov ]

InitL ==
    /\ cert_cache = << >>
    /\ openssl_initialized = FALSE
    /\ host_big_endian \in BOOLEAN
    /\ result = NoResult
    /\ call = NoCall
    /\ load_log = << >>
    /\ mem = [a \in Addrs |-> Unallocated]
    /\ cache_head = NullPtr
    /\ thread = [t \in Threads |-> IdleThread]
    /\ openssl_build \in OpenSSLBuilds
    /\ provider = "uninitialised"
    /\ last = NoLast

\* the process is still running (main has not returned)
Running == last.op # "main"

\* pg_load_certificates_from_dir(cert_dir)
LoadL ==
    /\ Running
    /\ \E dir \in LifeDirs, digest_ok \in BOOLEAN :
         LET r == LoadStep(cert_cache, openssl_initialized, openssl_build,
                           provider, dir, digest_ok)
         IN  /\ Len(r.cache) <= MaxCerts
             /\ cert_cache' = r.cache
             /\ openssl_initialized' = r.initialized
             /\ provider' = r.provider
             /\ last' = [NoLast EXCEPT !.op = "load", !.ret = r.ret,
                                       !.before = cert_cache, !.dir = dir,
                                       !.stderr = LoadStderr(dir),
                                       !.at_use = r.at_use,
                                       !.after_cleanup = last.after_cleanup]
    /\ UNCHANGED <<host_big_endian, result, call, load_log, openssl_build>>
    /\ UNCHANGED conc_vars

\* mutant: a verification drops the entry at the head of the list
VerifyL_DropsHead ==
    /\ Running
    /\ result = NoResult
    /\ \E m \in LifeModules, env \in LifeEnvs :
         LET r == VerifyStep(FileBytes(m), cert_cache, env, host_big_endian,
                             openssl_build, provider)
         IN  /\ call' = [mod |-> m, env |-> env]
             /\ result' = r.result
             /\ provider' = r.provider
             /\ last' = [NoLast EXCEPT !.op = "verify", !.before = cert_cache,
                                       !.at_use = r.at_use,
                                       !.after_cleanup = last.after_cleanup]
    /\ cert_cache' = IF cert_cache = << >> THEN << >> ELSE Tail(cert_cache)
    /\ UNCHANGED <<openssl_initialized, host_big_endian, load_log,
                   openssl_build>>
    /\ UNCHANGED conc_vars

\* pg_verify_module_signature(module_path)
VerifyL ==
    /\ Running
    /\ result = NoResult
    /\ \E m \in LifeModules, env \in LifeEnvs :
         LET r == VerifyStep(FileBytes(m), cert_cache, env, host_big_endian,
                             openssl_build, provider)
         IN  /\ call' = [mod |-> m, env |-> env]
             /\ result' = r.result
             /\ provider' = r.provider
             /\ last' = [NoLast EXCEPT !.op = "verify", !.before = cert_cache,
                                       !.at_use = r.at_use,
                                       !.after_cleanup = last.after_cleanup]
    /\ UNCHANGED <<cert_cache, openssl_initialized, host_big_endian, load_log,
                   openssl_build>>
    /\ UNCHANGED conc_vars

\* pg_free_verify_result(result) with the result of the last verification
FreeL ==
    /\ Running
    /\ result # NoResult
    /\ result' = NoResult
    /\ call' = NoCall
    /\ last' = [NoLast EXCEPT !.op = "free", !.before = cert_cache,
                              !.after_cleanup = last.after_cleanup]
    /\ UNCHANGED <<cert_cache, openssl_initialized, host_big_endian, load_log,
                   openssl_build, provider>>
    /\ UNCHANGED conc_vars

\* pg_free_verify_result(NULL): if (!result) return;
FreeNullL ==
    /\ Running
    /\ last' = [NoLast EXCEPT !.op = "free_null", !.before = cert_cache,
                              !.after_cleanup = last.after_cleanup]
    /\ UNCHANGED <<cert_cache, openssl_initialized, host_big_endian, result, call,
                   load_log, openssl_build, provider>>
    /\ UNCHANGED conc_vars

\* pg_cleanup(); a result the caller holds is the caller's
CleanupL ==
    /\ Running
    /\ cert_cache' = << >>
    /\ provider' = CleanupLibrary(openssl_build, openssl_initialized, provider)
    /\ last' = [NoLast EXCEPT !.op = "cleanup", !.before = cert_cache,
                              !.after_cleanup = TRUE]
    /\ UNCHANGED <<openssl_initialized, host_big_endian, result, call, load_log,
                   openssl_build>>
    /\ UNCHANGED conc_vars

\* the exit status of main
ExitStatus(argc, loaded) ==
    IF argc # 3 THEN 1
    ELSE IF loaded = 0 THEN 1
    ELSE 0

\* the test program, run in a fresh process: main(argc, argv) from its
\* first statement to its return
main ==
    /\ last.op = "none"
    /\ \E argc \in {2, 3}, dir \in LifeDirs, digest_ok \in BOOLEAN,
          m \in LifeModules, env \in LifeEnvs :
         LET loaded   == LoadStep(cert_cache, openssl_initialized, openssl_build,
                                  provider, dir, digest_ok)
             verifies == argc = 3 /\ loaded.ret # 0
             v        == VerifyStep(FileBytes(m), loaded.cache, env,
                                    host_big_endian, openssl_build, loaded.provider)
         IN  /\ Len(loaded.cache) <= MaxCerts
             /\ call' = [mod |-> m, env |-> env]
             \* pg_free_verify_result(result) before the return
             /\ result' = NoResult
             \* pg_cleanup() before return 0; the early returns leave the cache
             /\ cert_cache' = IF argc # 3 THEN cert_cache
                              ELSE IF verifies THEN << >> ELSE loaded.cache
             /\ openssl_initialized' =
                  IF argc # 3 THEN openssl_initialized ELSE loaded.initialized
             /\ provider' =
                  IF argc # 3 THEN provider
                  ELSE IF verifies
                       THEN CleanupLibrary(openssl_build, loaded.initialized, v.provider)
                       ELSE loaded.provider
             /\ last' = [NoLast EXCEPT
                           !.op = "main",
                           !.ret = ExitStatus(argc, loaded.ret),
                           !.dir = IF argc = 3 THEN dir ELSE << >>,
                           !.stderr = IF argc # 3 THEN {[text |-> "Usage", path |-> ""]}
                                      ELSE LoadStderr(dir) \cup
                                           (IF loaded.ret = 0
                                            THEN {[text |-> "No certificates loaded",
                                                   path |-> ""]}
                                            ELSE {}),
                           !.at_use = IF verifies THEN v.at_use ELSE "unused",
                           !.verified = verifies,
                           !.valid = verifies /\ v.result.valid,
                           !.after_cleanup = verifies]
    /\ UNCHANGED <<host_big_endian, load_log, openssl_build>>
    /\ UNCHANGED conc_vars

NextL == LoadL \/ VerifyL \/ FreeL \/ FreeNullL \/ CleanupL \/ main

SpecL == InitL /\ [][NextL]_vars

(***************************************************************************)
(* Notions of the specification the properties are stated with.            *)
(***************************************************************************)
\* a verification has returned and its result is held
Called == result # NoResult

\* the bytes of the file of that call
CallFile == FileBytes(call.mod)

\* the trailer of m passes the validation of the trailer parser: the header
\* fields name the lengths of the parts, sig_len is written big-endian
WellFormedTrailer(m) ==
    /\ m.magic = MODULE_SIG_STRING
    /\ Len(m.hdr) = SIZEOF_MODULE_SIGNATURE
    /\ m.hdr[1] = 0
    /\ m.hdr[2] \in 0..4
    /\ m.hdr[4] = Len(m.signer)
    /\ m.hdr[5] = Len(m.keyid)
    /\ SubSeq(m.hdr, 6, 8) = << 0, 0, 0 >>
    /\ BigEndian32(SubSeq(m.hdr, 9, 12)) = Len(m.sig)
    /\ Len(m.sig) >= 1
    /\ Len(m.sig) <= Len(FileBytes(m)) \div 2

\* entry i of the cache verifies the signature part of m over its content part
EntryVerifies(cache, i, m) ==
    EVP_PKEY_verify(cache[i].cert.pubkey, m.sig, Digest(m.hdr[2], m.content))

\* the last MODULE_SIG_STRING_LEN bytes of f
FinalBytes(f) == ReadAt(f, Len(f) - MODULE_SIG_STRING_LEN, MODULE_SIG_STRING_LEN)

\* the digest and the signature bytes the call handed to the certificate trials
CallFound == pg_find_module_signature(CallFile, call.env.fault, host_big_endian)
CallSigData ==
    pg_extract_signature(CallFile, CallFound.sig, CallFound.ret, call.env.fault).bytes
CallHash ==
    pg_calculate_module_hash(CallFile, CallFound.ret, CallFound.sig.hash, call.env).bytes

\* file f with the byte at 1-based position i changed in its lowest bit
Tampered(f, i) == [f EXCEPT ![i] = FlipBit(f[i], 0)]

(***************************************************************************)
(* Properties.                                                             *)
(***************************************************************************)
\* C1: for a file with a well-formed trailer, valid holds exactly when some
\* certificate of the store verifies the signature bytes over the digest of
\* the content, and then signer is the fingerprint of such a certificate.
\* (Stated for calls without an I/O fault.)  The code does not satisfy it.
C1_ValidIffTrustedSignature ==
    (Called /\ call.env.fault = "none" /\ WellFormedTrailer(call.mod)) =>
        /\ result.valid <=>
             \E i \in 1..Len(cert_cache) : EntryVerifies(cert_cache, i, call.mod)
        /\ result.valid =>
             \E i \in 1..Len(cert_cache) :
                /\ EntryVerifies(cert_cache, i, call.mod)
                /\ result.signer = cert_cache[i].fingerprint

\* C2: a valid result has a signature, no error message, and a signer, an
\* algorithm and a hash algorithm.
C2_ValidResultComplete ==
    (Called /\ result.valid) =>
        /\ result.has_signature
        /\ result.error_message = NULL
        /\ result.signer # NULL
        /\ result.algorithm # NULL
        /\ result.hash_algorithm # NULL

C2_Witness ==
    /\ Called
    /\ result.valid
    /\ result.signer = Sha256Hex(CertC.der)
    /\ Len(cert_cache) = 2

\* C3: a result without a signature is not valid, has signature_offset -1
\* and signature_size 0.  The code does not satisfy it.
C3_NoSignatureFields ==
    (Called /\ ~result.has_signature) =>
        /\ ~result.valid
        /\ result.signature_offset = -1
        /\ result.signature_size = 0

\* C4: an error message is present exactly when the result is not valid.
C4_ErrorIffNotValid ==
    Called => ((result.error_message # NULL) <=> ~result.valid)

C4_Witness ==
    /\ Called
    /\ ~result.valid
    /\ cert_cache # << >>
    /\ result.error_message = "Signature verification failed against all certificates"

\* C5: the signer of a valid result is the first certificate, in the order
\* in which the certificates were loaded, that verifies the signature.  The
\* code does not satisfy it.
C5_FirstLoadedWins ==
    (Called /\ result.valid) =>
        LET first == FirstVerifying(load_log, 1, CallHash, CallSigData)
        IN  /\ first # 0
            /\ result.signer = load_log[first].fingerprint

\* C6: for a file built as content, signature, signer name, key id, header,
\* magic with a header that names the lengths of the parts, the reported
\* signature_offset is the length of the content and signature_size the
\* length of the signature.  The code does not satisfy it.
C6_TrailerRoundTrip ==
    (Called /\ call.env.fault = "none" /\ WellFormedTrailer(call.mod)) =>
        /\ result.has_signature
        /\ result.signature_offset = Len(call.mod.content)
        /\ result.signature_size = Len(call.mod.sig)

\* C7: a file long enough for a trailer that ends with the magic string is
\* reported with has_signature = true, whatever its header says.  The code
\* does not satisfy it.
C7_MagicMeansSignature ==
    (/\ Called
     /\ call.env.fault = "none"
     /\ Len(CallFile) >= MODULE_SIG_STRING_LEN + SIZEOF_MODULE_SIGNATURE
     /\ FinalBytes(CallFile) = MODULE_SIG_STRING) =>
        result.has_signature

\* C8: a file that could be opened and is too short for a trailer, or whose
\* final bytes are not the magic string, is reported as having no signature.
C8_NoMagicNoSignature ==
    (/\ Called
     /\ call.env.fault # "fopen"
     /\ \/ Len(CallFile) < MODULE_SIG_STRING_LEN + SIZEOF_MODULE_SIGNATURE
        \/ FinalBytes(CallFile) # MODULE_SIG_STRING) =>
        /\ ~result.has_signature
        /\ ~result.valid
        /\ result.error_message = "No signature found in module"

C8_Witness ==
    /\ Called
    /\ call.mod \in MagicModules
    /\ call.env.fault = "none"
    /\ cert_cache # << >>
    /\ result.error_message = "No signature found in module"

\* C9: when a module verifies as valid, the module with one byte of its
\* content changed and the same trailer, verified against the same store,
\* is not valid and still has a signature.  The code does not satisfy it.
C9_ContentSensitive ==
    (Called /\ result.valid) =>
        \A i \in 1..Min(result.signature_offset, Len(call.mod.content)) :
            LET again == pg_verify_module_signature(Tampered(CallFile, i), cert_cache,
                                                    call.env, host_big_endian)
            IN  ~again.valid /\ again.has_signature

\* C10: with an empty store and a module whose trailer was accepted, the
\* result is not valid and its message is "No certificates loaded".  The
\* code does not satisfy it.
C10_EmptyStoreMessage ==
    (/\ Called
     /\ cert_cache = << >>
     /\ call.env.fault = "none"
     /\ result.has_signature
     /\ result.hash_algorithm # NULL) =>
        /\ ~result.valid
        /\ result.error_message = "No certificates loaded"

\* C11: with a non-empty store, a well-formed trailer and no certificate of
\* the store verifying the signature, the result has a signature, is not
\* valid, has no signer and the message "Signature verification failed
\* against all certificates"; and that message is only produced when every
\* entry of the store has been tried and has failed.  The code does not
\* satisfy it.
C11_AllCertificatesFailed ==
    /\ (/\ Called
        /\ call.env.fault = "none"
        /\ cert_cache # << >>
        /\ WellFormedTrailer(call.mod)
        /\ \A i \in 1..Len(cert_cache) : ~EntryVerifies(cert_cache, i, call.mod)) =>
           /\ result.has_signature
           /\ ~result.valid
           /\ result.signer = NULL
           /\ result.error_message
                = "Signature verification failed against all certificates"
    /\ (/\ Called
        /\ result.error_message
             = "Signature verification failed against all certificates") =>
           \A i \in 1..Len(cert_cache) :
              ~pg_verify_signature_with_cert(CallHash, CallSigData, cert_cache[i].cert)

\* C12: iterating the store yields every certificate at most once, however
\* often it was loaded.  The code does not satisfy it.
C12_LoadIdempotent ==
    \A i, j \in 1..Len(cert_cache) :
       i # j => cert_cache[i].cert # cert_cache[j].cert

\* the file of the call is long enough for a trailer and ends with the magic
\* string, so that its twelve header bytes are call.mod.hdr
CallHasTrailer ==
    /\ Called
    /\ call.env.fault = "none"
    /\ call.mod.magic = MODULE_SIG_STRING
    /\ Len(call.mod.hdr) = SIZEOF_MODULE_SIGNATURE

\* C13: a trailer whose three padding bytes are not all zero is rejected:
\* the result has a signature, is not valid and carries an error message.
\* The code does not satisfy it.
C13_PaddingRejected ==
    (CallHasTrailer /\ SubSeq(call.mod.hdr, 6, 8) # << 0, 0, 0 >>) =>
        /\ result.has_signature
        /\ ~result.valid
        /\ result.error_message # NULL

\* C14: a trailer whose algo byte is not RSA (0) is never valid: the result
\* has a signature, is not valid and its message is "Unknown public-key
\* algorithm".  The code does not satisfy it.
C14_UnknownAlgoRejected ==
    (CallHasTrailer /\ call.mod.hdr[1] # 0) =>
        /\ result.has_signature
        /\ ~result.valid
        /\ result.error_message = "Unknown public-key algorithm"

\* C15: for a malformed trailer, in particular one whose hash byte is not in
\* 0..4, the result has a signature, is not valid, has an error message,
\* signature_offset -1 and signature_size 0.  The code does not satisfy it.
C15_MalformedNoLayout ==
    (CallHasTrailer /\ call.mod.hdr[2] \notin 0..4) =>
        /\ result.has_signature
        /\ ~result.valid
        /\ result.error_message # NULL
        /\ result.signature_offset = -1
        /\ result.signature_size = 0

\* C16: the four sig_len bytes are read as a big-endian integer on every
\* host: for a well-formed trailer without signer name and key id,
\* signature_size is the big-endian value of those bytes and
\* signature_offset the length of the content.  The code does not satisfy it.
C16_SigLenBigEndian ==
    (/\ Called
     /\ call.env.fault = "none"
     /\ WellFormedTrailer(call.mod)
     /\ call.mod.signer = << >>
     /\ call.mod.keyid = << >>) =>
        /\ result.has_signature
        /\ result.signature_size = BigEndian32(SubSeq(call.mod.hdr, 9, 12))
        /\ result.signature_offset = Len(call.mod.content)

\* C17: when the module file cannot be opened the result is present, has no
\* signature, is not valid, carries "Failed to open module file" and has no
\* signer, algorithm or hash algorithm, whatever the file and the store hold.
C17_OpenFailure ==
    (Called /\ call.env.fault = "fopen") =>
        /\ ~result.has_signature
        /\ ~result.valid
        /\ result.error_message = "Failed to open module file"
        /\ result.signer = NULL
        /\ result.algorithm = NULL
        /\ result.hash_algorithm = NULL

\* the open fails on a module that the store would verify
C17_Witness ==
    /\ Called
    /\ call.env.fault = "fopen"
    /\ WellFormedTrailer(call.mod)
    /\ \E i \in 1..Len(cert_cache) : EntryVerifies(cert_cache, i, call.mod)
    /\ result.error_message = "Failed to open module file"

\* the entries a walk from pointer p along next reaches, in at most n steps
RECURSIVE ReachableFrom(_, _)
ReachableFrom(p, n) ==
    IF p \notin Addrs \/ n = 0 THEN {}
    ELSE {p} \cup ReachableFrom(mem[p].next, n - 1)

\* thread t is in the certificate loop of a verify and holds an entry
InLoopAt(t) ==
    /\ thread[t].op = "verify"
    /\ thread[t].pc \in {"verify_test", "verify_signer", "verify_next"}
    /\ thread[t].cert_entry # NullPtr

\* C18: every entry a verify holds in its loop is completely inserted (its
\* certificate and its fingerprint are written), and no verify has copied
\* an unwritten fingerprint.  The code does not satisfy it.
C18_VerifySeesCompleteEntries ==
    \A t \in Threads :
       /\ InLoopAt(t) =>
            /\ mem[thread[t].cert_entry].cert # NoCert
            /\ mem[thread[t].cert_entry].fingerprint # UninitString
       /\ thread[t].op = "verify" => ~thread[t].read_uninit

\* C19: no verify reads an entry, certificate or fingerprint that a cleanup
\* has released.  The code does not satisfy it.
C19_VerifyNeverReadsFreed ==
    \A t \in Threads : thread[t].op = "verify" => ~thread[t].read_freed

\* C20: once a load has returned 1, and no cleanup has been at the store
\* since the load began, its entry is in the list.  The code does not
\* satisfy it.
C20_NoLostInsertion ==
    \A t \in Threads :
       (/\ thread[t].op = "load"
        /\ thread[t].pc = "returned"
        /\ thread[t].ret = 1
        /\ ~thread[t].wiped) =>
          thread[t].entry \in ReachableFrom(cache_head, MaxEntries)

\* C26: when a verification has returned, the file handle, the signature
\* buffer and the digest buffer acquired during the call have each been
\* released exactly once (and what was not acquired was not released).
C26_ResourcesReleasedOnce ==
    Called =>
        LET res == VerifyResources(CallFile, call.env, host_big_endian)
        IN  \A r \in DOMAIN res :
               /\ res[r].acquired \in {0, 1}
               /\ res[r].released = res[r].acquired

\* the call took the exit on which pg_extract_signature frees its own buffer
C26_Witness ==
    /\ Called
    /\ VerifyPath(CallFile, call.env, host_big_endian) = "extract_failed"
    /\ VerifyResources(CallFile, call.env, host_big_endian).sig_data.acquired = 1
    /\ result.error_message = "Failed to extract signature data"

\* the call reached the hashing pass, and the reads of that pass delivered
\* fewer bytes than the content_end bytes that were to be hashed
ShortHashRead ==
    /\ Called
    /\ call.env.fault = "short_read"
    /\ VerifyPath(CallFile, call.env, host_big_endian)
         \in {"hash_failed", "certificate_loop"}
    /\ call.env.at < CallFound.ret

\* C27: when fewer than content_end bytes could be fed to the digest, the
\* result reports the hash failure and no certificate is tried.  The code
\* does not satisfy it.
C27_ShortReadFailsHash ==
    ShortHashRead =>
        /\ ~result.valid
        /\ result.error_message = "Failed to calculate module hash"

\* C28: every byte written while the fingerprint of a stored certificate
\* was formatted lies inside the buffer allocated for it.  The code does
\* not satisfy it.
C28_FingerprintInBuffer ==
    \A i \in 1..Len(cert_cache) :
       \A w \in FingerprintWrites(cert_cache[i].fingerprint # "unknown") :
          w < FINGERPRINT_BUF_SIZE

\* C29: a result with a signature reports a range inside the file, before
\* the trailer header and the magic string: the offset is not negative,
\* the size is at least 1 and offset + size does not reach the header.
C29_SignatureRangeInFile ==
    (Called /\ result.has_signature) =>
        /\ result.signature_offset >= 0
        /\ result.signature_size >= 1
        /\ result.signature_offset + result.signature_size
             <= Len(CallFile) - SIZEOF_MODULE_SIGNATURE - MODULE_SIG_STRING_LEN

\* the signature starts at the first byte of the file
C29_Witness ==
    /\ Called
    /\ result.has_signature
    /\ result.signature_offset = 0
    /\ result.signature_size >= 2

\* list old is the tail end of list new: new is old with entries put in front
IsSuffix(old, new) ==
    /\ Len(new) >= Len(old)
    /\ SubSeq(new, Len(new) - Len(old) + 1, Len(new)) = old

\* C21: the store is empty when the process starts; a load, verify or free
\* call only adds entries in front of those that are there (none is removed
\* or replaced); pg_cleanup leaves the store empty.
C21_StoreLifecycle ==
    [][ /\ last.op = "none" => cert_cache = << >>
        /\ last'.op \in {"load", "verify", "free", "free_null"} =>
             IsSuffix(cert_cache, cert_cache')
        /\ last'.op = "cleanup" => cert_cache' = << >> ]_vars

\* after a cleanup the store has been grown again, on top of an entry
C21_Witness ==
    /\ last.op = "load"
    /\ last.after_cleanup
    /\ last.before # << >>
    /\ Len(cert_cache) > Len(last.before)

\* C22: pg_load_certificates_from_dir returns the number of entries it
\* added; every entry it added is the certificate of a readable file with
\* one of the five recognised names; it reports nothing for a recognised
\* name that is missing or unreadable.
C22_LoadReturnsCountAdded ==
    last.op = "load" =>
        /\ last.ret = Len(cert_cache) - Len(last.before)
        /\ \A i \in 1..(Len(cert_cache) - Len(last.before)) :
              \E n \in Range(cert_files) :
                 /\ CanOpen(last.dir[n])
                 /\ cert_cache[i].cert = ParseCertificate(last.dir[n])
        /\ \A msg \in last.stderr : CanOpen(last.dir[msg.path])

\* a directory with an unknown name, an unreadable file, a file that does
\* not parse and one certificate, loaded into a store that is not empty
C22_Witness ==
    /\ last.op = "load"
    /\ last.dir[OtherName] = Pem(CertC)
    /\ last.dir["user_secureboot.crt"] = Unreadable
    /\ last.dir["phoenixguard.crt"] = Garbage
    /\ last.before # << >>
    /\ last.ret = 1

\* C23: pg_load_certificate on a file that cannot be opened or does not
\* parse returns 0 and leaves the store as it is; so does a directory load
\* that finds only such files.
C23_FailedLoadLeavesStore ==
    /\ \A f \in {Missing, Unreadable, Garbage}, digest_ok \in BOOLEAN :
          LET r == pg_load_certificate(cert_cache, openssl_initialized, f, digest_ok)
          IN  r.ret = 0 /\ r.cache = cert_cache
    /\ (/\ last.op = "load"
        /\ \A n \in Range(cert_files) :
              ~CanOpen(last.dir[n]) \/ ParseCertificate(last.dir[n]) = NoCert) =>
           /\ last.ret = 0
           /\ cert_cache = last.before

\* a directory with an unreadable file and a file that does not parse,
\* loaded into a store that is not empty
C23_Witness ==
    /\ last.op = "load"
    /\ last.dir["phoenixguard.crt"] = Garbage
    /\ last.dir["user_secureboot.crt"] = Unreadable
    /\ last.dir["user_secureboot.pem"] = Missing
    /\ last.ret = 0
    /\ cert_cache # << >>

\* C24: the exit status of the test program is 0 exactly when a
\* verification took place and its result was valid.  The code does not
\* satisfy it.
C24_ExitStatusIsValidity ==
    last.op = "main" => (last.ret = 0 <=> last.valid)

\* C25: whenever a call used a digest or signature-verify primitive, the
\* library was in its initialised state.  The code does not satisfy it.
C25_ProviderInitialisedAtUse ==
    last.at_use \in {"unused", "initialised"}

\* C30: a verify or free call leaves the store as it is; freeing NULL
\* changes nothing; and a result that is held stays as it is when the
\* store is loaded or cleaned up (its strings are its own copies).
C30_VerifyAndFreeKeepStore ==
    [][ /\ last'.op \in {"verify", "free", "free_null"} => cert_cache' = cert_cache
        /\ last'.op = "free_null" =>
             UNCHANGED <<cert_cache, openssl_initialized, result, call, provider>>
        /\ last'.op \in {"load", "cleanup"} => result' = result ]_vars

\* a valid result is held and names its signer after the store was emptied
C30_Witness ==
    /\ last.op = "cleanup"
    /\ last.before # << >>
    /\ cert_cache = << >>
    /\ Called
    /\ result.valid
    /\ result.signer = Sha256Hex(CertA.der)

====
